---- MODULE Spec2Model ----
(***************************************************************************)
(* Model of the invite-email service of src/server.js.                     *)
(*                                                                         *)
(* server.js holds two definitions of the service, one after the other     *)
(* (lines 1-297 and lines 299-556).  The variable `variant` says which of  *)
(* the two is the running one; every operator that models code is written  *)
(* for both and selects on `variant`.                                      *)
(*                                                                         *)
(* PORT and the SMTP host, port and secure flag only parameterise the       *)
(* listener and the external transport and are left out.                   *)
(*                                                                         *)
(* JavaScript values are records [t, s, n]: t is the type tag, s the       *)
(* characters of a string (a sequence of one-character strings; literal    *)
(* template text is kept as longer tokens), n the number or boolean.       *)
(***************************************************************************)
EXTENDS Integers, Sequences, FiniteSets, TLC

VARIABLES variant, env, alive, req, value, result

vars == <<variant, env, alive, req, value, result>>

\* ------------------------------------------------------------------ bounds
\* longest string handed to extractEmail in SpecExtract
MaxLen == 4
\* requests in flight at once in SpecConc
MaxReq == 2

\* ------------------------------------------------------- JavaScript values
Undefined == [t |-> "undefined", s |-> <<>>, n |-> 0]
Null == [t |-> "null", s |-> <<>>, n |-> 0]
Str(chars) == [t |-> "string", s |-> chars, n |-> 0]
Num(k) == [t |-> "number", s |-> <<>>, n |-> k]
True == [t |-> "boolean", s |-> <<>>, n |-> 1]
False == [t |-> "boolean", s |-> <<>>, n |-> 0]

IsString(v) == v.t = "string"

\* JavaScript truthiness: what `!v`, `v ? a : b`, `v || w`, filter(Boolean) test
Truthy(v) ==
  \/ v.t = "string" /\ v.s # <<>>
  \/ v.t = "number" /\ v.n # 0
  \/ v.t = "boolean" /\ v.n = 1
  \/ v.t = "object"

\* a || b
Or(a, b) == IF Truthy(a) THEN a ELSE b

Digits == <<"0", "1", "2", "3", "4", "5", "6", "7", "8", "9">>

\* String(v) / template interpolation of a string or a one-digit number
ToChars(v) ==
  IF v.t = "string" THEN v.s
  ELSE IF v.t = "number" THEN <<Digits[v.n + 1]>>
  ELSE <<v.t>>

\* ------------------------------------------------------- string primitives
UpperCase == <<"A", "B", "C", "D", "E", "F", "G", "H", "I", "J", "K", "L", "M",
               "N", "O", "P", "Q", "R", "S", "T", "U", "V", "W", "X", "Y", "Z">>
LowerCase == <<"a", "b", "c", "d", "e", "f", "g", "h", "i", "j", "k", "l", "m",
               "n", "o", "p", "q", "r", "s", "t", "u", "v", "w", "x", "y", "z">>

IsUpper(c) == \E i \in 1..26 : UpperCase[i] = c

ToLowerChar(c) ==
  IF IsUpper(c) THEN LowerCase[CHOOSE i \in 1..26 : UpperCase[i] = c] ELSE c

\* String.prototype.toLowerCase
toLowerCase(s) == [i \in 1..Len(s) |-> ToLowerChar(s[i])]

IsWs(c) == c \in {" ", "\t", "\n", "\r"}

SetMin(S) == CHOOSE x \in S : \A y \in S : x <= y
SetMax(S) == CHOOSE x \in S : \A y \in S : x >= y

\* String.prototype.trim
trim(s) ==
  LET keep == {i \in 1..Len(s) : ~IsWs(s[i])}
  IN IF keep = {} THEN <<>> ELSE SubSeq(s, SetMin(keep), SetMax(keep))

\* String.prototype.includes for one character
includes(s, c) == \E i \in 1..Len(s) : s[i] = c

\* s.match(/<([^>]+)>/): where the leftmost match opens, 0 for no match.
\* At a '<' the class [^>]+ needs one character that is not '>' and then
\* runs up to the first '>' after it.
MatchStart(s) ==
  LET opens == {i \in 1..Len(s) :
                  /\ s[i] = "<"
                  /\ i + 1 <= Len(s)
                  /\ s[i + 1] # ">"
                  /\ \E j \in (i + 2)..Len(s) : s[j] = ">"}
  IN IF opens = {} THEN 0 ELSE SetMin(opens)

\* match[1], the captured group of the match that opens at i
MatchGroup(s, i) ==
  LET close == SetMin({j \in (i + 2)..Len(s) : s[j] = ">"})
  IN SubSeq(s, i + 1, close - 1)

\* s.replace(/_/g, ' ')
ReplaceUnderscores(s) == [i \in 1..Len(s) |-> IF s[i] = "_" THEN " " ELSE s[i]]

\* ---------------------------------------------------------------- helpers
\* extractEmail of the first definition: trims the whole value, then takes
\* the bracketed part and lower-cases it
extractEmail1(v) ==
  IF ~IsString(v) THEN Null
  ELSE LET trimmed == trim(v.s)
       IN IF trimmed = <<>> THEN Null
          ELSE LET m == MatchStart(trimmed)
                   email == toLowerCase(IF m # 0 THEN MatchGroup(trimmed, m) ELSE trimmed)
               IN IF includes(email, "@") THEN Str(email) ELSE Null

\* extractEmail of the second definition: takes the bracketed part of the
\* value as given, then trims and lower-cases it
extractEmail2(v) ==
  IF ~Truthy(v) \/ ~IsString(v) THEN Null
  ELSE LET m == MatchStart(v.s)
           email == toLowerCase(trim(IF m # 0 THEN MatchGroup(v.s, m) ELSE v.s))
       IN IF includes(email, "@") THEN Str(email) ELSE Null

extractEmail(v) == IF variant = 1 THEN extractEmail1(v) ELSE extractEmail2(v)

\* formatFrom(name, email), the same in both definitions
formatFrom(name, email) ==
  IF ~Truthy(email) THEN Null
  ELSE IF Truthy(name) THEN Str(ToChars(name) \o <<" <">> \o ToChars(email) \o <<">">>)
  ELSE email

\* ----------------------------------------------------------- configuration
\* s.split(',')
RECURSIVE split(_)
split(s) ==
  LET commas == {i \in 1..Len(s) : s[i] = ","}
  IN IF commas = {} THEN <<s>>
     ELSE LET i == SetMin(commas)
          IN <<SubSeq(s, 1, i - 1)>> \o split(SubSeq(s, i + 1, Len(s)))

\* list.filter((x) => x)  over a list of strings
RECURSIVE filterNonEmpty(_)
filterNonEmpty(list) ==
  IF list = <<>> THEN <<>>
  ELSE (IF Head(list) # <<>> THEN <<Head(list)>> ELSE <<>>) \o filterNonEmpty(Tail(list))

\* process.env.SMTP_USER || null   /   process.env.SMTP_USER
SMTP_USER == IF variant = 1 THEN Or(env.SMTP_USER, Null) ELSE env.SMTP_USER

\* process.env.SMTP_PASS || null   /   process.env.SMTP_PASS
SMTP_PASS == IF variant = 1 THEN Or(env.SMTP_PASS, Null) ELSE env.SMTP_PASS

INVITE_FROM_NAME == Or(env.INVITE_FROM_NAME, Str(<<"Attendance Platform">>))

\* a sender address left unset, with no default
INVITE_FROM_EMAIL_NoDefault == Or(env.INVITE_FROM_EMAIL, Null)

INVITE_FROM_EMAIL == Or(env.INVITE_FROM_EMAIL, SMTP_USER)

INVITE_REPLY_TO == Or(env.INVITE_REPLY_TO, IF variant = 1 THEN Null ELSE Undefined)

INVITE_EMAIL_API_KEY == Or(env.INVITE_EMAIL_API_KEY, Null)

\* (env || '*').split(',').map(trim), and .filter(Boolean) in the first definition
INVITE_ALLOWED_ORIGINS ==
  LET parts == split(Or(env.INVITE_ALLOWED_ORIGINS, Str(<<"*">>)).s)
      trimmed == [i \in 1..Len(parts) |-> trim(parts[i])]
  IN IF variant = 1 THEN filterNonEmpty(trimmed) ELSE trimmed

allowAnyOrigin == \E i \in 1..Len(INVITE_ALLOWED_ORIGINS) : INVITE_ALLOWED_ORIGINS[i] = <<"*">>

\* nodemailer.createTransport({...}): the dispatcher object
Transport == [t |-> "object", s |-> <<"transport">>, n |-> 0]

\* a dispatcher built as soon as the SMTP user is set
transporter_UserOnly == IF Truthy(SMTP_USER) THEN Transport ELSE Null

transporter == IF Truthy(SMTP_USER) /\ Truthy(SMTP_PASS) THEN Transport ELSE Null

\* the environments the service is started in
Envs ==
  [SMTP_USER : {Undefined, Str(<<"mailer@smtp.example">>)},
   SMTP_PASS : {Undefined, Str(<<"secret">>)},
   INVITE_FROM_NAME : {Undefined},
   INVITE_FROM_EMAIL : {Undefined, Str(<<"invites@org.example">>)},
   INVITE_REPLY_TO : {Undefined, Str(<<"replies@org.example">>)},
   INVITE_EMAIL_API_KEY : {Undefined, Str(<<"k">>)},
   INVITE_ALLOWED_ORIGINS : {Undefined, Str(<<"o", ",", " ", "p", ",">>)}]

\* ---------------------------------------------------------- invite composer
\* [a, b].filter(Boolean).join(' ')
joinNames(a, b) ==
  IF Truthy(a) /\ Truthy(b) THEN ToChars(a) \o <<" ">> \o ToChars(b)
  ELSE IF Truthy(a) THEN ToChars(a)
  ELSE IF Truthy(b) THEN ToChars(b)
  ELSE <<>>

\* what a composer hands back: threw is a TypeError raised while composing
Composed(subject, text, html) ==
  [threw |-> FALSE, subject |-> Str(subject), text |-> Str(text), html |-> Str(html)]
ComposeThrows ==
  [threw |-> TRUE, subject |-> Undefined, text |-> Undefined, html |-> Undefined]

\* buildInviteBodies of the first definition; link is the trimmed link
buildInviteBodies(firstName, lastName, role, organizationName, link) ==
  LET joined == trim(joinNames(firstName, lastName))
      recipientName == IF joined # <<>> THEN joined ELSE <<"there">>
      orgTrimmed == IF IsString(organizationName) THEN trim(organizationName.s) ELSE <<>>
      subjectOrg == IF Truthy(organizationName) /\ orgTrimmed # <<>>
                    THEN orgTrimmed ELSE <<"Attendance Platform">>
      roleLabel == IF Truthy(role) THEN ReplaceUnderscores(ToChars(role)) ELSE <<"member">>
      subject == <<"You're invited to ">> \o subjectOrg
      textBody == <<"Hi ">> \o recipientName \o <<",", "\n", "\n">>
                  \o <<"You've been invited to join ">> \o subjectOrg
                  \o <<" as a ">> \o roleLabel \o <<".", "\n">>
                  \o <<"Use the link below to set up your username and password:", "\n">>
                  \o ToChars(link) \o <<"\n", "\n">>
                  \o <<"If you were not expecting this email, you can ignore it.">>
      htmlBody == <<"<p>Hi ">> \o recipientName \o <<",</p>">>
                  \o <<"<p>You've been invited to join <strong>">> \o subjectOrg
                  \o <<"</strong> as a <strong>">> \o roleLabel \o <<"</strong>.</p>">>
                  \o <<"<p><a href=\"">> \o ToChars(link)
                  \o <<"\" target=\"_blank\" rel=\"noopener noreferrer\">Click here to finish registration</a>.</p>">>
                  \o <<"<p>If you were not expecting this email, you can ignore it.</p>">>
  IN \* organizationName && organizationName.trim(): only a string has trim
     IF Truthy(organizationName) /\ ~IsString(organizationName) THEN ComposeThrows
     ELSE Composed(subject, textBody, htmlBody)

\* buildInviteEmail of the second definition; link is the link as given
buildInviteEmail(firstName, lastName, role, organizationName, link) ==
  LET joined == joinNames(firstName, lastName)
      recipient == IF joined # <<>> THEN joined ELSE <<"there">>
      org == ToChars(Or(organizationName, Str(<<"Attendance Platform">>)))
      roleLabel == IF Truthy(role) THEN ReplaceUnderscores(ToChars(role)) ELSE <<"member">>
      subject == <<"You're invited to ">> \o org
      text == <<"Hi ">> \o recipient \o <<",", "\n", "\n">>
              \o <<"You've been invited to join ">> \o org
              \o <<" as a ">> \o roleLabel \o <<".", "\n">>
              \o <<"Use the link below to complete your registration:", "\n", "\n">>
              \o ToChars(link) \o <<"\n", "\n">>
              \o <<"If you did not expect this email, you can ignore it.">>
      html == <<"<p>Hi ">> \o recipient \o <<",</p>">>
              \o <<"<p>You've been invited to join <strong>">> \o org
              \o <<"</strong> as a <strong>">> \o roleLabel \o <<"</strong>.</p>">>
              \o <<"<p><a href=\"">> \o ToChars(link)
              \o <<"\" target=\"_blank\">Click here to finish registration</a></p>">>
              \o <<"<p>If you did not expect this email, you can ignore it.</p>">>
  IN \* role.replace(...): only a string has replace
     IF Truthy(role) /\ ~IsString(role) THEN ComposeThrows
     ELSE Composed(subject, text, html)

\* ------------------------------------------------------------------ requests
EmptyPayload ==
  [email |-> Undefined, link |-> Undefined, first_name |-> Undefined,
   last_name |-> Undefined, role |-> Undefined, organization_name |-> Undefined,
   from |-> Undefined]

Emails ==
  {Undefined, Num(5), Str(<<>>), Str(<<" ">>), Str(<<"a", "b">>),
   Str(<<" ", "A", "@", "b", " ">>),
   Str(<<"N", " ", "<", " ", "a", "@", "B", " ", ">">>)}

Links ==
  {Undefined, Num(5), Str(<<>>), Str(<<" ">>),
   Str(<<" ", "https://app.example/register", " ">>)}

ValidPayload ==
  [EmptyPayload EXCEPT !.email = Str(<<" ", "A", "@", "b", " ">>),
                       !.link = Str(<<" ", "https://app.example/register", " ">>)]

\* email and link in every combination; each optional field over its types
\* on an otherwise valid request; one request with every field set
Payloads ==
  {[EmptyPayload EXCEPT !.email = e, !.link = l] : e \in Emails, l \in Links}
  \cup {[ValidPayload EXCEPT !.role = x] : x \in {Str(<<"t", "_", "l">>), Num(5)}}
  \cup {[ValidPayload EXCEPT !.organization_name = x] :
          x \in {Str(<<"O", "r", "g">>), Str(<<" ">>), Num(5)}}
  \cup {[ValidPayload EXCEPT !.from = x] :
          x \in {Str(<<"B", " ", "<", "B", "@", "x", ">">>), Str(<<"b", "a", "d">>), Num(5)}}
  \cup {[ValidPayload EXCEPT !.first_name = x] : x \in {Str(<<"J", "o">>), Num(5)}}
  \cup {[ValidPayload EXCEPT !.first_name = Str(<<"J", "o">>), !.last_name = Str(<<"D", "o">>),
                             !.role = Str(<<"t", "_", "l">>),
                             !.organization_name = Str(<<"O", "r", "g">>),
                             !.from = Str(<<"b", "@", "x">>)]}

\* the request body on the wire: none, JSON that does not parse, JSON beyond
\* the 250kb limit, or a JSON object
Bodies ==
  {[kind |-> k, payload |-> EmptyPayload] : k \in {"none", "malformed", "toobig"}}
  \cup {[kind |-> "json", payload |-> p] : p \in Payloads}

\* the x-api-key header: absent, empty, the configured key, another key
Keys == {Undefined, Str(<<>>), Str(<<"k">>), Str(<<"x">>)}

SendInputs ==
  [method : {"POST"}, path : {"/send-invite-email"},
   origin : {Str(<<"o">>), Str(<<"q">>)}, key : Keys, body : Bodies]

OtherInputs ==
  [method : {"GET"}, path : {"/health", "/openapi.json", "/docs", "/send-invite-email"},
   origin : {Undefined, Str(<<"o">>)}, key : {Undefined},
   body : {[kind |-> "none", payload |-> EmptyPayload]}]
  \cup
  [method : {"OPTIONS"}, path : {"/send-invite-email"},
   origin : {Undefined, Str(<<"o">>)}, key : {Undefined},
   body : {[kind |-> k, payload |-> EmptyPayload] : k \in {"none", "malformed"}}]

Inputs == SendInputs \cup OtherInputs

\* ------------------------------------------------------------ request state
NoJson ==
  [error |-> Undefined, delivered |-> Undefined, messageId |-> Undefined,
   reason |-> Undefined, ok |-> Undefined, doc |-> Undefined]

NoResponse == [status |-> 0, type |-> "none", json |-> NoJson]

NoHeaders ==
  [acao |-> Undefined, vary |-> Undefined, allowHeaders |-> Undefined,
   allowMethods |-> Undefined]

NoInput ==
  [method |-> "", path |-> "", origin |-> Undefined, key |-> Undefined,
   body |-> [kind |-> "none", payload |-> EmptyPayload]]

NoOutcome == [kind |-> "none", messageId |-> Undefined, isError |-> FALSE, message |-> Undefined]

\* one request: pc is where it stands (idle, stack: in the middleware stack
\* at `stage`, awaiting: suspended on sendMail, done: answered, hung: left
\* without an answer, aborted: cut off by the process ending); body is
\* req.body; headers and res are the response; nres counts the responses
\* written; sent lists the messages passed to transporter.sendMail; outcome
\* is how that call ended
Idle ==
  [pc |-> "idle", stage |-> 0, in |-> NoInput,
   body |-> [set |-> FALSE, payload |-> EmptyPayload],
   headers |-> NoHeaders, res |-> NoResponse, nres |-> 0,
   sent |-> <<>>, outcome |-> NoOutcome]

\* the order of app.use / route registration
Stack ==
  IF variant = 1 THEN <<"cors", "json", "router">> ELSE <<"json", "cors", "router">>

\* res.status(status).json(obj), res.sendStatus, or the framework's own
\* error page: the one response of a request
Finish(q, status, type, json) ==
  [q EXCEPT !.pc = "done",
            !.res = [status |-> status, type |-> type, json |-> json],
            !.nres = @ + 1]

\* applyCors(req, res) / the inline CORS code of the second definition
applyCors(in, headers) ==
  LET allowed == \E i \in 1..Len(INVITE_ALLOWED_ORIGINS) :
                   INVITE_ALLOWED_ORIGINS[i] = in.origin.s
  IN [acao |-> IF allowAnyOrigin THEN Str(<<"*">>)
               ELSE IF Truthy(in.origin) /\ allowed THEN in.origin
               ELSE headers.acao,
      vary |-> Str(<<"Origin">>),
      allowHeaders |-> Str(<<"Content-Type, X-API-Key">>),
      allowMethods |-> Str(<<"GET, POST, OPTIONS">>)]

\* a key gate that lets a request without the header through
Unauthorized_MissingKeyPasses(key) ==
  /\ Truthy(INVITE_EMAIL_API_KEY)
  /\ Truthy(key)
  /\ key # INVITE_EMAIL_API_KEY

\* the API key gate of the send handler
Unauthorized(key) ==
  /\ Truthy(INVITE_EMAIL_API_KEY)
  /\ IF variant = 1 THEN ~Truthy(key) \/ key # INVITE_EMAIL_API_KEY
     ELSE key # INVITE_EMAIL_API_KEY

\* typeof payload.link === 'string' ? payload.link.trim() : ''   /   req.body.link
linkOf(payload) ==
  IF variant = 1
  THEN (IF IsString(payload.link) THEN Str(trim(payload.link.s)) ELSE Str(<<>>))
  ELSE payload.link

\* the 400 gate: !email || !link
Invalid(payload) == ~Truthy(extractEmail(payload.email)) \/ ~Truthy(linkOf(payload))

\* the 500 gates: the error text, or Undefined when the configuration is complete
ConfigError ==
  IF variant = 1
  THEN (IF ~Truthy(transporter) \/ ~Truthy(SMTP_USER) \/ ~Truthy(SMTP_PASS)
        THEN Str(<<"SMTP credentials are not configured.">>)
        ELSE IF ~Truthy(INVITE_FROM_EMAIL)
        THEN Str(<<"INVITE_FROM_EMAIL is not configured.">>)
        ELSE Undefined)
  ELSE (IF ~Truthy(transporter) THEN Str(<<"SMTP not configured">>) ELSE Undefined)

\* INVITE_REPLY_TO || extractEmail(payload.from) || undefined   /   INVITE_REPLY_TO
replyToAddress(payload) ==
  IF variant = 1
  THEN Or(Or(INVITE_REPLY_TO, extractEmail(payload.from)), Undefined)
  ELSE INVITE_REPLY_TO

\* the composer each definition calls
compose(payload) ==
  IF variant = 1
  THEN buildInviteBodies(payload.first_name, payload.last_name, payload.role,
                         payload.organization_name, linkOf(payload))
  ELSE buildInviteEmail(payload.first_name, payload.last_name, payload.role,
                        payload.organization_name, linkOf(payload))

\* the object passed to transporter.sendMail
mailOptions(payload) ==
  LET mail == compose(payload)
  IN [from |-> formatFrom(INVITE_FROM_NAME, INVITE_FROM_EMAIL),
      to |-> extractEmail(payload.email),
      subject |-> mail.subject, text |-> mail.text, html |-> mail.html,
      replyTo |-> replyToAddress(payload)]

\* ------------------------------------------------------- the mail dispatcher
\* what sendMail resolves with: info.messageId is a string or missing
MessageIds == {Str(<<"abc123">>), Undefined}

\* what sendMail rejects with: an Error carrying a message, or a value that
\* is not an Error
Rejections ==
  {[isError |-> TRUE, message |-> Str(<<m>>)] : m \in {"connection refused", "auth failed"}}
  \cup {[isError |-> FALSE, message |-> Undefined]}

\* the body answered after sendMail resolved
deliveredJson(messageId) ==
  [NoJson EXCEPT !.delivered = True,
                 !.messageId = IF variant = 1 THEN Or(messageId, Null) ELSE messageId]

\* the body answered from the catch block
failedJson(err) ==
  IF variant = 1
  THEN [NoJson EXCEPT !.delivered = False,
                      !.reason = IF err.isError THEN err.message
                                 ELSE Str(<<"Unable to send invitation email.">>)]
  ELSE [NoJson EXCEPT !.delivered = False, !.error = err.message]

\* what becomes of an exception no handler catches: the framework answers
\* with its error page, the request is left unanswered, or the process ends
UncaughtOutcomes == {"error500", "hang", "crash"}

\* ------------------------------------------------------------------ actions
\* a request arrives on slot r
Receive(r, inputs) ==
  /\ alive
  /\ req[r].pc = "idle"
  /\ \E i \in inputs :
       req' = [req EXCEPT ![r] = [Idle EXCEPT !.pc = "stack", !.stage = 1, !.in = i]]
  /\ UNCHANGED <<variant, env, alive, value, result>>

\* the CORS middleware: headers, and 204 for a preflight
CorsMiddleware(r) ==
  LET q == req[r]
      q1 == [q EXCEPT !.headers = applyCors(q.in, q.headers)]
  IN /\ alive
     /\ q.pc = "stack"
     /\ Stack[q.stage] = "cors"
     /\ req' = [req EXCEPT ![r] =
                  IF q.in.method = "OPTIONS" THEN Finish(q1, 204, "empty", NoJson)
                  ELSE [q1 EXCEPT !.stage = @ + 1]]
     /\ UNCHANGED <<variant, env, alive, value, result>>

\* express.json({ limit: '250kb' }): a body that does not parse or is too
\* large ends the request with the framework's error page; without a body
\* req.body is left {} or undefined, as the framework's version has it
JsonMiddleware(r) ==
  LET q == req[r]
  IN /\ alive
     /\ q.pc = "stack"
     /\ Stack[q.stage] = "json"
     /\ \E bodySet \in BOOLEAN :
          req' = [req EXCEPT ![r] =
                    CASE q.in.body.kind = "malformed" -> Finish(q, 400, "html", NoJson)
                      [] q.in.body.kind = "toobig" -> Finish(q, 413, "html", NoJson)
                      [] q.in.body.kind = "json" ->
                           [q EXCEPT !.stage = @ + 1,
                                     !.body = [set |-> TRUE, payload |-> q.in.body.payload]]
                      [] OTHER ->
                           [q EXCEPT !.stage = @ + 1,
                                     !.body = [set |-> bodySet, payload |-> EmptyPayload]]]
     /\ UNCHANGED <<variant, env, alive, value, result>>

AtRouter(q) == q.pc = "stack" /\ Stack[q.stage] = "router"

\* app.get('/openapi.json')
OpenApiJson(r) ==
  LET q == req[r]
  IN /\ alive
     /\ AtRouter(q)
     /\ q.in.method = "GET" /\ q.in.path = "/openapi.json"
     /\ req' = [req EXCEPT ![r] =
                  Finish(q, 200, "json", [NoJson EXCEPT !.doc = Str(<<"swaggerSpec">>)])]
     /\ UNCHANGED <<variant, env, alive, value, result>>

\* app.use('/docs', swaggerUi.serve, swaggerUi.setup(swaggerSpec))
Docs(r) ==
  LET q == req[r]
  IN /\ alive
     /\ AtRouter(q)
     /\ q.in.path = "/docs"
     /\ req' = [req EXCEPT ![r] = Finish(q, 200, "html", NoJson)]
     /\ UNCHANGED <<variant, env, alive, value, result>>

\* app.get('/health')
Health(r) ==
  LET q == req[r]
  IN /\ alive
     /\ AtRouter(q)
     /\ q.in.method = "GET" /\ q.in.path = "/health"
     /\ req' = [req EXCEPT ![r] = Finish(q, 200, "json", [NoJson EXCEPT !.ok = True])]
     /\ UNCHANGED <<variant, env, alive, value, result>>

\* no route matches: the framework's 404 page
NotFound(r) ==
  LET q == req[r]
  IN /\ alive
     /\ AtRouter(q)
     /\ ~(q.in.method = "GET" /\ q.in.path \in {"/openapi.json", "/health"})
     /\ q.in.path # "/docs"
     /\ ~(q.in.method = "POST" /\ q.in.path = "/send-invite-email")
     /\ req' = [req EXCEPT ![r] = Finish(q, 404, "html", NoJson)]
     /\ UNCHANGED <<variant, env, alive, value, result>>

\* an exception thrown out of the async handler of request r
Uncaught(r, how) ==
  CASE how = "error500" ->
         /\ req' = [req EXCEPT ![r] = Finish(req[r], 500, "html", NoJson)]
         /\ UNCHANGED alive
    [] how = "hang" ->
         /\ req' = [req EXCEPT ![r].pc = "hung"]
         /\ UNCHANGED alive
    [] OTHER ->
         /\ alive' = FALSE
         /\ req' = [x \in DOMAIN req |->
                      IF req[x].pc \in {"idle", "done"} THEN req[x]
                      ELSE [req[x] EXCEPT !.pc = "aborted"]]

\* app.post('/send-invite-email'), from its start to the await of sendMail
SendInviteEmail(r) ==
  LET q == req[r]
      payload == IF q.body.set THEN q.body.payload ELSE EmptyPayload
      json(status, text) == Finish(q, status, "json", [NoJson EXCEPT !.error = text])
  IN /\ alive
     /\ AtRouter(q)
     /\ q.in.method = "POST" /\ q.in.path = "/send-invite-email"
     /\ IF Unauthorized(q.in.key)
        THEN /\ req' = [req EXCEPT ![r] = json(401, Str(<<"Unauthorized">>))]
             /\ UNCHANGED alive
        ELSE IF variant = 2 /\ ~q.body.set
        THEN \* req.body.email with req.body undefined
             \E how \in UncaughtOutcomes : Uncaught(r, how)
        ELSE IF Invalid(payload)
        THEN /\ req' = [req EXCEPT ![r] =
                          json(400, IF variant = 1
                                    THEN Str(<<"Email and registration link are required.">>)
                                    ELSE Str(<<"Email and link are required">>))]
             /\ UNCHANGED alive
        ELSE IF ConfigError # Undefined
        THEN /\ req' = [req EXCEPT ![r] = json(500, ConfigError)]
             /\ UNCHANGED alive
        ELSE IF compose(payload).threw
        THEN \E how \in UncaughtOutcomes : Uncaught(r, how)
        ELSE /\ req' = [req EXCEPT ![r] =
                          [q EXCEPT !.pc = "awaiting",
                                    !.sent = Append(@, mailOptions(payload))]]
             /\ UNCHANGED alive
     /\ UNCHANGED <<variant, env, value, result>>

\* sendMail resolves: the handler resumes after the await
SendMailResolves(r) ==
  LET q == req[r]
  IN /\ alive
     /\ q.pc = "awaiting"
     /\ \E id \in MessageIds :
          req' = [req EXCEPT ![r] =
                    Finish([q EXCEPT !.outcome = [NoOutcome EXCEPT !.kind = "resolved",
                                                                    !.messageId = id]],
                           200, "json", deliveredJson(id))]
     /\ UNCHANGED <<variant, env, alive, value, result>>

\* a catch block that sends the message once more instead of answering
SendMailRejects_Retry(r) ==
  LET q == req[r]
  IN /\ alive
     /\ q.pc = "awaiting"
     /\ Len(q.sent) < 3
     /\ req' = [req EXCEPT ![r].sent = Append(@, q.sent[1])]
     /\ UNCHANGED <<variant, env, alive, value, result>>

\* sendMail rejects: the handler resumes in its catch block
SendMailRejects(r) ==
  LET q == req[r]
  IN /\ alive
     /\ q.pc = "awaiting"
     /\ \E err \in Rejections :
          req' = [req EXCEPT ![r] =
                    Finish([q EXCEPT !.outcome = [NoOutcome EXCEPT !.kind = "rejected",
                                                                    !.isError = err.isError,
                                                                    !.message = err.message]],
                           502, "json", failedJson(err))]
     /\ UNCHANGED <<variant, env, alive, value, result>>

\* the answered request leaves; its slot takes the next one
Close(r) ==
  /\ alive
  /\ req[r].pc = "done"
  /\ req' = [req EXCEPT ![r] = Idle]
  /\ UNCHANGED <<variant, env, alive, value, result>>

Handle(r) ==
  \/ CorsMiddleware(r)
  \/ JsonMiddleware(r)
  \/ OpenApiJson(r)
  \/ Docs(r)
  \/ Health(r)
  \/ NotFound(r)
  \/ SendInviteEmail(r)
  \/ SendMailResolves(r)
  \/ SendMailRejects(r)
  \/ Close(r)

\* --------------------------------------------------------- the specification
\* the service started in any environment, serving one request at a time
Init ==
  /\ variant \in {1, 2}
  /\ env \in Envs
  /\ alive = TRUE
  /\ req = [r \in 1..MaxReq |-> Idle]
  /\ value = Undefined
  /\ result = Undefined

Next == \E r \in {1} : Receive(r, Inputs) \/ Handle(r)

Spec == Init /\ [][Next]_vars

\* ---------------------------------------------- extractEmail on its own
Pending == [t |-> "pending", s |-> <<>>, n |-> 0]

ExtractAlphabet == {" ", "<", ">", "@", "a", "A"}

\* every string of at most MaxLen characters, and values that are no string
ExtractInputs ==
  {Undefined, Null, Num(5)}
  \cup {Str(s) : s \in UNION {[1..k -> ExtractAlphabet] : k \in 0..MaxLen}}

NoEnv ==
  [SMTP_USER |-> Undefined, SMTP_PASS |-> Undefined, INVITE_FROM_NAME |-> Undefined,
   INVITE_FROM_EMAIL |-> Undefined, INVITE_REPLY_TO |-> Undefined,
   INVITE_EMAIL_API_KEY |-> Undefined, INVITE_ALLOWED_ORIGINS |-> Undefined]

InitExtract ==
  /\ variant \in {1, 2}
  /\ env = NoEnv
  /\ alive = TRUE
  /\ req = [r \in 1..MaxReq |-> Idle]
  /\ value \in ExtractInputs
  /\ result = Pending

\* result = extractEmail(value)
ApplyExtract ==
  /\ result = Pending
  /\ result' = extractEmail(value)
  /\ UNCHANGED <<variant, env, alive, req, value>>

NextExtract == ApplyExtract

SpecExtract == InitExtract /\ [][NextExtract]_vars

\* ------------------------------------------------- requests side by side
\* with and without SMTP credentials, an API key set
ConcEnvs ==
  {[NoEnv EXCEPT !.SMTP_USER = u, !.SMTP_PASS = Str(<<"secret">>),
                 !.INVITE_EMAIL_API_KEY = Str(<<"k">>)] :
     u \in {Undefined, Str(<<"mailer@smtp.example">>)}}

\* send requests with the right and a wrong key: a valid one, one without a
\* usable email, and one each with a number as organization_name and as role
ConcInputs ==
  [method : {"POST"}, path : {"/send-invite-email"}, origin : {Str(<<"o">>)},
   key : {Str(<<"k">>), Str(<<"x">>)},
   body : {[kind |-> "json", payload |-> p] :
             p \in {ValidPayload,
                    [ValidPayload EXCEPT !.organization_name = Num(5)],
                    [ValidPayload EXCEPT !.role = Num(5)]}}]
  \cup
  [method : {"POST"}, path : {"/send-invite-email"}, origin : {Str(<<"o">>)},
   key : {Str(<<"k">>)},
   body : {[kind |-> "json", payload |-> [ValidPayload EXCEPT !.email = Str(<<"a", "b">>)]]}]

InitConc ==
  /\ variant \in {1, 2}
  /\ env \in ConcEnvs
  /\ alive = TRUE
  /\ req = [r \in 1..MaxReq |-> Idle]
  /\ value = Undefined
  /\ result = Undefined

NextConc ==
  \E r \in 1..MaxReq :
    \/ Receive(r, ConcInputs)
    \/ CorsMiddleware(r)
    \/ JsonMiddleware(r)
    \/ SendInviteEmail(r)
    \/ SendMailResolves(r)
    \/ SendMailRejects(r)
    \/ Close(r)

SpecConc == InitConc /\ [][NextConc]_vars

\* ------------------------------------------------------------------- claims
Slots == 1..MaxReq

IsSend(q) == q.in.method = "POST" /\ q.in.path = "/send-invite-email"

\* the body reached the handler: it parsed, or there was none
BodyParsed(q) == q.in.body.kind \in {"json", "none"}

KeyConfigured == env.INVITE_EMAIL_API_KEY # Undefined

\* the x-api-key header is absent, empty or different from the configured key
BadKey(q) ==
  q.in.key = Undefined \/ q.in.key = Str(<<>>) \/ q.in.key # env.INVITE_EMAIL_API_KEY

Authorized(q) == ~KeyConfigured \/ q.in.key = env.INVITE_EMAIL_API_KEY

\* the bracketed portion of a string if it has one, else the whole string
Bracketed(s) == IF MatchStart(s) # 0 THEN MatchGroup(s, MatchStart(s)) ELSE s

\* the address a string stands for: bracketed portion, trimmed, lower-cased
Normalized(s) == toLowerCase(trim(Bracketed(s)))

\* email absent, not a string, empty, whitespace-only or without '@'
BadEmail(v) == ~IsString(v) \/ trim(v.s) = <<>> \/ ~includes(Normalized(v.s), "@")

\* link absent, not a string, empty or whitespace-only
BadLink(v) == ~IsString(v) \/ trim(v.s) = <<>>

SmtpConfigured == Truthy(env.SMTP_USER) /\ Truthy(env.SMTP_PASS)

Answered(q, status) == q.pc = "done" /\ q.res.status = status

\* C1 as stated: with an API key configured, a send request with an absent,
\* empty or wrong x-api-key is answered 401 {error: "Unauthorized"} whatever
\* its body (a body that is not well-formed JSON included), and the
\* dispatcher is never invoked for it.
Unauthorized_C1_Original ==
  \A r \in Slots :
    LET q == req[r]
    IN IsSend(q) /\ KeyConfigured /\ BadKey(q)
       => /\ q.sent = <<>>
          /\ q.pc = "done"
             => q.res = [status |-> 401, type |-> "json",
                         json |-> [NoJson EXCEPT !.error = Str(<<"Unauthorized">>)]]

\* C1 amended: with an API key configured, a send request with an absent,
\* empty or wrong x-api-key whose body the body-parsing stage accepts (no
\* body, or well-formed JSON within the limit, whatever its fields) is
\* answered 401 {error: "Unauthorized"}; one whose body that stage rejects
\* (malformed JSON, or beyond the limit) is answered by that stage with 400
\* or 413; in every case the dispatcher is never invoked.
Unauthorized_C1 ==
  \A r \in Slots :
    LET q == req[r]
    IN IsSend(q) /\ KeyConfigured /\ BadKey(q)
       => /\ q.sent = <<>>
          /\ q.pc \notin {"awaiting", "hung", "aborted"}
          /\ q.pc = "done" /\ BodyParsed(q)
             => q.res = [status |-> 401, type |-> "json",
                         json |-> [NoJson EXCEPT !.error = Str(<<"Unauthorized">>)]]
          /\ q.pc = "done" /\ ~BodyParsed(q)
             => q.res.status \in {400, 413} /\ q.res.type = "html"

\* C1 witness: a fully valid request with a wrong key, answered 401
Unauthorized_C1_Witness ==
  \E r \in Slots :
    /\ IsSend(req[r]) /\ KeyConfigured /\ SmtpConfigured
    /\ req[r].in.key = Str(<<"x">>)
    /\ req[r].in.body = [kind |-> "json", payload |-> ValidPayload]
    /\ Answered(req[r], 401)

\* C2: an authorized send request whose email is absent, not a string, empty,
\* whitespace-only or without '@' after extraction, or whose link is absent,
\* not a string, empty or whitespace-only, is answered 400 and the dispatcher
\* is never invoked.
InvalidInput_C2 ==
  \A r \in Slots :
    LET q == req[r]
    IN /\ IsSend(q) /\ Authorized(q) /\ q.in.body.kind = "json"
       /\ BadEmail(q.in.body.payload.email) \/ BadLink(q.in.body.payload.link)
       => /\ q.sent = <<>>
          /\ q.pc = "done" => q.res.status = 400

\* C3: for a request that reached the dispatch step, a dispatcher that
\* returns gives 200 {delivered: true, messageId: <id, or null when none>},
\* and one that throws an error with message m gives
\* 502 {delivered: false, reason: m}.
DispatchOutcome_C3 ==
  \A r \in Slots :
    LET q == req[r]
    IN q.pc = "done" /\ q.sent # <<>>
       => /\ q.outcome.kind = "resolved"
             => q.res = [status |-> 200, type |-> "json",
                         json |-> [NoJson EXCEPT !.delivered = True,
                                     !.messageId = IF q.outcome.messageId = Undefined
                                                   THEN Null ELSE q.outcome.messageId]]
          /\ q.outcome.kind = "rejected" /\ q.outcome.isError
             => q.res = [status |-> 502, type |-> "json",
                         json |-> [NoJson EXCEPT !.delivered = False,
                                                 !.reason = q.outcome.message]]

SmtpErrorTexts ==
  {Str(<<"SMTP credentials are not configured.">>), Str(<<"SMTP not configured">>)}

SenderErrorTexts == {Str(<<"INVITE_FROM_EMAIL is not configured.">>)}

\* C4: an authorized send request with a valid email and link is answered
\* 500 with an error naming the SMTP credentials when the SMTP user or
\* password is missing, and 500 with a different error naming the sender
\* address when the dispatcher exists but the resolved sender email is empty;
\* in both cases the dispatcher is not invoked.
ConfigGate_C4 ==
  \A r \in Slots :
    LET q == req[r]
    IN /\ IsSend(q) /\ Authorized(q) /\ q.in.body.kind = "json"
       /\ ~BadEmail(q.in.body.payload.email) /\ ~BadLink(q.in.body.payload.link)
       => /\ ~SmtpConfigured
             => /\ q.sent = <<>>
                /\ q.pc \notin {"awaiting", "hung", "aborted"}
                /\ q.pc = "done"
                   => /\ q.res.status = 500 /\ q.res.type = "json"
                      /\ q.res.json.error \in SmtpErrorTexts
          /\ SmtpConfigured /\ ~Truthy(INVITE_FROM_EMAIL)
             => /\ q.sent = <<>>
                /\ q.pc = "done"
                   => /\ q.res.status = 500 /\ q.res.type = "json"
                      /\ q.res.json.error \in SenderErrorTexts

\* C4 witness: SMTP user set, password missing, valid request answered 500
ConfigGate_C4_Witness ==
  \E r \in Slots :
    /\ IsSend(req[r]) /\ Authorized(req[r])
    /\ Truthy(env.SMTP_USER) /\ ~Truthy(env.SMTP_PASS)
    /\ req[r].in.body = [kind |-> "json", payload |-> ValidPayload]
    /\ Answered(req[r], 500)

\* C5: a send request whose body parses as JSON ends with exactly one
\* response, of status 200, 400, 401, 500 or 502 and with a JSON body (an
\* error response carrying `error` or `reason`), whatever the types of the
\* optional fields; none is left without a response and none fails through
\* an uncaught exception.
OneJsonResponse_C5 ==
  \A r \in Slots :
    LET q == req[r]
    IN IsSend(q) /\ q.in.body.kind = "json"
       => /\ q.pc \notin {"hung", "aborted"}
          /\ q.nres <= 1
          /\ q.pc = "done"
             => /\ q.nres = 1
                /\ q.res.status \in {200, 400, 401, 500, 502}
                /\ q.res.type = "json"
                /\ q.res.status # 200
                   => q.res.json.error # Undefined \/ q.res.json.reason # Undefined

\* the allowed-origins configuration contains the wildcard
WildcardConfigured ==
  \/ env.INVITE_ALLOWED_ORIGINS = Undefined
  \/ includes(env.INVITE_ALLOWED_ORIGINS.s, "*")

\* C6: with the wildcard in the allowed origins, every response carries
\* Access-Control-Allow-Origin: *, the 204 of a preflight, the 400 of the
\* body-parsing stage and the 401/400/500/502 of the send handler included.
CorsWildcard_C6 ==
  \A r \in Slots :
    WildcardConfigured /\ req[r].pc = "done" => req[r].headers.acao = Str(<<"*">>)

\* C7: for a string, extractEmail returns null or the bracketed portion if
\* present (else the whole value) trimmed and lower-cased; what it returns
\* contains '@', has no upper-case letter and no leading or trailing
\* whitespace; a value that is no string, is empty or has no '@' yields null.
ExtractEmail_C7 ==
  result # Pending
  => /\ ~IsString(value) \/ value.s = <<>> \/ ~includes(value.s, "@") => result = Null
     /\ result # Null
        => /\ IsString(value)
           /\ result = Str(Normalized(value.s))
           /\ includes(result.s, "@")
           /\ \A i \in 1..Len(result.s) : ~IsUpper(result.s[i])
           /\ trim(result.s) = result.s

\* C8: the replyTo passed to the dispatcher is the configured reply-to
\* override when one is set; otherwise the email extracted from the request's
\* `from` when that is not null; otherwise undefined.
ReplyTo_C8 ==
  \A r \in Slots :
    LET q == req[r]
        from == extractEmail(q.in.body.payload.from)
    IN q.sent # <<>>
       => q.sent[1].replyTo = IF Truthy(env.INVITE_REPLY_TO) THEN env.INVITE_REPLY_TO
                              ELSE IF from # Null THEN from
                              ELSE Undefined

SenderResolved_C10 ==
  /\ SmtpConfigured => Truthy(INVITE_FROM_EMAIL)
  /\ \A r \in Slots :
       /\ req[r].res.json.error \notin SenderErrorTexts
       /\ \A i \in 1..Len(req[r].sent) : req[r].sent[i].from # Null

\* C10 witness: no INVITE_FROM_EMAIL in the environment, and a message
\* handed to the dispatcher with the SMTP user as its sender
SenderResolved_C10_Witness ==
  \E r \in Slots :
    /\ env.INVITE_FROM_EMAIL = Undefined
    /\ req[r].sent # <<>>
    /\ req[r].sent[1].from = formatFrom(INVITE_FROM_NAME, env.SMTP_USER)

====
